---- MODULE Spec2Model ----
(***************************************************************************)
(* Bucket-list goal store: the in-memory collection of goal records, the   *)
(* localStorage snapshot kept under the key "bucketListItems", and the     *)
(* three variants of the store found in the repository:                    *)
(*   "plain"   - BucketListApp keeping items itself (load/save effects),   *)
(*   "logging" - useBucketList with try/catch around every operation,      *)
(*   "tracing" - useBucketList with every operation wrapped in traceSync / *)
(*               traceAsync, which re-throw.                               *)
(***************************************************************************)
EXTENDS Integers, Sequences, FiniteSets, TLC

VARIABLES
    variant,    \* which store variant is running (fixed at construction)
    pc,         \* position of the component: mount / loading / save / render / ready / crashed
    items,      \* React state `items` (the last value given to setItems)
    rendered,   \* the `items` the callbacks and effects of the last render closed over
    pending,    \* the setItems call not rendered yet: "none", "array" or "nonarray"
    isLoading,  \* React state `isLoading`
    error,      \* React state `error` ("null" or the message)
    storage,    \* localStorage["bucketListItems"]
    now,        \* the clock read by Date.now() / new Date()
    failures,   \* how many times localStorage.setItem has thrown
    selectedCategory,   \* the page's state `selectedCategory`
    dialog,     \* the page's states `isDialogOpen`, `editingItem` and `formData`
    sink,       \* the observability sink: NODE_ENV and whether delivery succeeds
    logged,     \* what the logger did with the last entry given to it
    span,       \* the span of the last traceSync / traceAsync call
    last        \* the last store operation: its name, id argument, outcome and write

vars ==
    <<variant, pc, items, rendered, pending, isLoading, error, storage, now, failures,
      selectedCategory, dialog, sink, logged, span, last>>

----------------------------------------------------------------------------
(* Bounds of the model *)

MaxItems == 2
MaxTime == 1
MaxRand == 1
MaxFailures == 1

Variants == {"plain", "logging", "tracing"}
HookVariants == {"logging", "tracing"}

Categories == {"travel"}
Progresses == {60, 100}
DraftDeadlines == {"undefined"}
FormDeadlines == {""}

----------------------------------------------------------------------------
(* Records and ids *)

\* id: `item_${Date.now()}_${Math.random().toString(36).substr(2, 9)}`
HookId(t, r) == <<t, r>>

\* id: Date.now().toString()
PlainId(t) == <<t>>

HookIds == {HookId(t, r) : t \in 0..MaxTime, r \in 1..MaxRand}

IdsOf(s) == {s[i].id : i \in 1..Len(s)}

\* items.find((item) => item.id === id): index of the first match, 0 if none
FindIndex(s, id) ==
    IF \E i \in 1..Len(s) : s[i].id = id
    THEN CHOOSE i \in 1..Len(s) : s[i].id = id /\ \A j \in 1..(i - 1) : s[j].id # id
    ELSE 0

\* { ...a, ...b }: the keys of both, b's value where both have the key
Spread(a, b) ==
    [k \in (DOMAIN a) \cup (DOMAIN b) |-> IF k \in DOMAIN b THEN b[k] ELSE a[k]]

----------------------------------------------------------------------------
(* localStorage content and JSON *)

NoSnapshot == [kind |-> "null"]          \* getItem returns null
Unparseable == [kind |-> "garbage"]      \* a string JSON.parse rejects
NotAnArray == [kind |-> "object"]        \* valid JSON that is no array, e.g. "{}"

\* JSON.stringify of one record: a key whose value is undefined is left out
StringifyItem(item) ==
    [k \in {f \in DOMAIN item : ~(f = "deadline" /\ item[f] = "undefined")} |-> item[k]]

\* JSON.stringify(items)
Stringify(s) == [kind |-> "json", val |-> [i \in 1..Len(s) |-> StringifyItem(s[i])]]

\* Reading the records JSON.parse returns: an absent deadline reads as undefined
ParseItem(j) ==
    IF "deadline" \in DOMAIN j THEN j ELSE Spread(j, [deadline |-> "undefined"])

\* JSON.parse(saved) for a saved array
Parse(b) == [i \in 1..Len(b.val) |-> ParseItem(b.val[i])]

----------------------------------------------------------------------------
(* Inputs *)

\* itemData given to addItem: Omit<BucketListItem, "id" | "createdAt" | "updatedAt">
Drafts ==
    [title : {"t1"}, description : {""}, category : Categories,
     deadline : DraftDeadlines, progress : Progresses, completed : BOOLEAN]

\* formData of the plain page's form
FormData ==
    [title : {"t1"}, description : {""}, category : Categories,
     deadline : FormDeadlines, progress : Progresses]

\* updates given to updateItem: Partial<BucketListItem>
Updates(s) ==
    {[id |-> i] : i \in IdsOf(s)}
    \cup {[progress |-> p, completed |-> c] : p \in Progresses, c \in BOOLEAN}

\* The times a second clock read of the same call can return
Later(t) == {u \in t..(t + 1) : u <= MaxTime}

NoId == <<>>

Op(name, id, out, write) == [op |-> name, id |-> id, out |-> out, write |-> write]

WriteResult(ok) == IF ok THEN "ok" ELSE "failed"

----------------------------------------------------------------------------
(* The collection after each operation *)

\* const newItem = { ...itemData, id, createdAt, updatedAt }
NewItem(itemData, id, c, u) ==
    Spread(itemData, [id |-> id, createdAt |-> c, updatedAt |-> u])

\* Fault seeded for C16: the merge derives completed from progress
UpdatedItems_DerivesCompleted(s, id, updates, t) ==
    [i \in 1..Len(s) |->
        IF s[i].id = id
        THEN Spread(Spread(s[i], updates),
                    [updatedAt |-> t,
                     completed |-> (Spread(s[i], updates).progress = 100)])
        ELSE s[i]]

\* items.map((item) => item.id === id ? { ...item, ...updates, updatedAt } : item)
UpdatedItems(s, id, updates, t) ==
    [i \in 1..Len(s) |->
        IF s[i].id = id THEN Spread(Spread(s[i], updates), [updatedAt |-> t]) ELSE s[i]]

\* items.filter((item) => item.id !== id)
DeletedItems(s, id) == SelectSeq(s, LAMBDA item : item.id # id)

\* toggleComplete's updates for the item it found
ToggleUpdates(item) ==
    [completed |-> ~item.completed,
     progress |-> IF ~item.completed THEN 100 ELSE item.progress]

\* toggleComplete(id) of the hook: updateItem(id, updates of the first match)
ToggledItems(s, id, t) ==
    UpdatedItems(s, id, ToggleUpdates(s[FindIndex(s, id)]), t)

\* the plain page's new item: { id, ...formData, completed, createdAt }
PlainNewItem(formData, id, c) ==
    Spread(Spread([id |-> id], formData),
           [completed |-> (formData.progress = 100), createdAt |-> c])

\* the plain page's edit: { ...item, ...formData, completed } for the edited id
PlainEditedItems(s, id, formData) ==
    [i \in 1..Len(s) |->
        IF s[i].id = id
        THEN Spread(Spread(s[i], formData), [completed |-> (formData.progress = 100)])
        ELSE s[i]]

\* the plain page's toggleComplete
PlainToggledItems(s, id) ==
    [i \in 1..Len(s) |->
        IF s[i].id = id
        THEN Spread(s[i], [completed |-> ~s[i].completed,
                           progress |-> IF ~s[i].completed THEN 100 ELSE s[i].progress])
        ELSE s[i]]

----------------------------------------------------------------------------
(* Observability: the logger of lib/logger.ts and the spans of lib/tracing.ts *)

DEBUG == 0
INFO == 1
WARN == 2
ERROR == 3
LogLevels == {DEBUG, INFO, WARN, ERROR}

Envs == {"development", "production", "test"}

\* the states of the sink: NODE_ENV, and whether what is sent to it arrives
Sinks == [env : Envs, up : BOOLEAN]

\* the threshold the constructor chooses
LogLevel(lg) == IF lg.env = "development" THEN DEBUG ELSE INFO

\* Fault seeded for C30: an entry at the threshold is dropped
ShouldLog_Strict(lg, level) == level > LogLevel(lg)

ShouldLog(lg, level) == level >= LogLevel(lg)

\* Fault seeded for C22: a failed delivery is thrown at the caller of the logger
SendToLogService_Rethrows(lg) ==
    [posted |-> TRUE, delivered |-> lg.up,
     outcome |-> IF lg.up THEN "returned" ELSE "threw"]

\* sendToLogService(entry): the POST to /api/logs; a failing fetch is caught and
\* reported on the console, and output does not await the promise
SendToLogService(lg) ==
    [posted |-> TRUE, delivered |-> lg.up, outcome |-> "returned"]

\* output(entry): what the logger does with an entry of the given level
Output(lg, level) ==
    IF ~ShouldLog(lg, level)
    THEN [level |-> level, printed |-> FALSE, posted |-> FALSE, delivered |-> FALSE,
          outcome |-> "returned"]
    ELSE IF lg.env = "production"
         THEN [level |-> level, printed |-> TRUE,
               posted |-> SendToLogService(lg).posted,
               delivered |-> SendToLogService(lg).delivered,
               outcome |-> SendToLogService(lg).outcome]
         ELSE [level |-> level, printed |-> TRUE, posted |-> FALSE, delivered |-> FALSE,
               outcome |-> "returned"]

\* a call of logger.debug / info / warn / error that does not return to its caller
LogThrows(lg, level) == Output(lg, level).outcome = "threw"

\* no entry has been given to the logger yet
NoEntry ==
    [level |-> DEBUG, printed |-> FALSE, posted |-> FALSE, delivered |-> FALSE,
     outcome |-> "none"]

\* no span has been created yet
NoSpan ==
    [state |-> "none", op |-> "none", status |-> "UNSET", ends |-> 0, handed |-> "none"]

\* the span a traceSync / traceAsync call leaves behind once it has handed the
\* operation's result (or its exception) to the caller
Traced(threw) ==
    [state |-> "ended",
     op |-> IF threw THEN "threw" ELSE "returned",
     status |-> IF threw THEN "ERROR" ELSE "OK",
     ends |-> 1,
     handed |-> IF threw THEN "error" ELSE "result"]

\* createSpan(name): a span that has been started and whose operation is running
Started ==
    [state |-> "started", op |-> "running", status |-> "UNSET", ends |-> 0,
     handed |-> "none"]

\* the page's dialog state after useState / resetForm with the dialog closed
ClosedDialog ==
    [open |-> FALSE, editingItem |-> NoId, formData |-> "blank", via |-> "none"]

----------------------------------------------------------------------------
(* Construction *)

Init ==
    /\ variant \in Variants
    /\ pc = "mount"
    /\ items = <<>>
    /\ rendered = <<>>
    /\ pending = "none"
    /\ isLoading = (variant \in HookVariants)
    /\ error = "null"
    /\ storage \in {NoSnapshot, Unparseable, NotAnArray}
    /\ now = 0
    /\ failures = 0
    /\ selectedCategory = "all"
    /\ dialog = ClosedDialog
    /\ sink = [env |-> "development", up |-> TRUE]
    /\ logged = NoEntry
    /\ span = NoSpan
    /\ last = Op("none", NoId, "none", "none")

\* The hook's callbacks are reachable once the mount effect has run and while the page
\* does not show its loading screen (if (isLoading) return ...)
Ready == pc \in {"loading", "ready"} /\ ~isLoading

\* setItems(newItems) followed by the re-render that ends the event
SetItems(newItems) ==
    /\ items' = newItems
    /\ rendered' = newItems
    /\ pending' = "none"

\* A non-array value given to setItems: the next render calls items.filter and throws,
\* and React unmounts the tree
RenderThrows ==
    /\ pc' = "crashed"
    /\ UNCHANGED <<items, rendered, pending>>

----------------------------------------------------------------------------
(* useBucketList, logging variant *)

\* a throw inside a try block of the hook: the catch reports it and nothing else changes
Caught(op, id, message, out) ==
    /\ error' = message
    /\ last' = Op(op, id, out, "none")
    /\ UNCHANGED <<items, rendered, pending, storage, failures>>

\* loadItems, run by the mount effect, as it runs over the sink lg
LoadItemsLoggingOn(lg) ==
    /\ variant = "logging" /\ pc = "mount"
    /\ isLoading' = FALSE
    /\ CASE LogThrows(lg, DEBUG) \/ storage.kind = "garbage" ->
              /\ pc' = "ready"
              /\ error' = "Failed to load"
              /\ last' = Op("load", NoId, "caught", "none")
              /\ UNCHANGED <<items, rendered, pending>>
         [] ~LogThrows(lg, DEBUG) /\ storage.kind = "null" ->
              /\ pc' = "ready"
              /\ last' = Op("load", NoId, "value", "none")
              /\ UNCHANGED <<items, rendered, pending, error>>
         [] ~LogThrows(lg, DEBUG) /\ storage.kind = "object" ->
              /\ RenderThrows
              /\ last' = Op("load", NoId, "value", "none")
              /\ UNCHANGED error
         [] ~LogThrows(lg, DEBUG) /\ storage.kind = "json" ->
              /\ pc' = "ready"
              /\ SetItems(Parse(storage))
              /\ last' = Op("load", NoId, "value", "none")
              /\ UNCHANGED error
    /\ UNCHANGED <<variant, selectedCategory, dialog, sink, span, storage, now, failures>>

\* the level of the entry a logging operation ends with: logger.error in its catch,
\* logger.info otherwise
LastEntryLevel(out) == IF out \in {"caught", "null", "false"} THEN ERROR ELSE INFO

LoadItemsLogging ==
    /\ LoadItemsLoggingOn(sink)
    /\ logged' = Output(sink, LastEntryLevel(last'.out))

\* Fault seeded for C10: saveItems writes only the last record (a delta write)
SaveItemsLogging_Delta(newItems, ok) ==
    /\ storage' = IF ok THEN Stringify(SubSeq(newItems, Len(newItems), Len(newItems)))
                   ELSE storage
    /\ error' = IF ok THEN error ELSE "Failed to save"
    /\ failures' = IF ok THEN failures ELSE failures + 1

\* Fault seeded for C28: a successful save resets the error state
SaveItemsLogging_ClearsError(newItems, ok) ==
    /\ storage' = IF ok THEN Stringify(newItems) ELSE storage
    /\ error' = IF ok THEN "null" ELSE "Failed to save"
    /\ failures' = IF ok THEN failures ELSE failures + 1

\* saveItems(newItems): setItem either stores the whole blob or throws; the throw is caught
SaveItemsLogging(newItems, ok) ==
    /\ storage' = IF ok THEN Stringify(newItems) ELSE storage
    /\ error' = IF ok THEN error ELSE "Failed to save"
    /\ failures' = IF ok THEN failures ELSE failures + 1

AddItemLoggingOn(itemData, r, c, u, ok, lg) ==
    /\ variant = "logging" /\ Ready
    /\ Len(rendered) < MaxItems
    /\ IF LogThrows(lg, INFO)
       THEN Caught("add", HookId(now, r), "Failed to add", "null")
       ELSE /\ SetItems(Append(rendered, NewItem(itemData, HookId(now, r), c, u)))
            /\ SaveItemsLogging(Append(rendered, NewItem(itemData, HookId(now, r), c, u)), ok)
            /\ last' = Op("add", HookId(now, r), "value", WriteResult(ok))
    /\ now' = u
    /\ UNCHANGED <<variant, selectedCategory, sink, span, pc, isLoading>>

AddItemLogging(itemData, r, c, u, ok) ==
    /\ AddItemLoggingOn(itemData, r, c, u, ok, sink)
    /\ logged' = Output(sink, LastEntryLevel(last'.out))
    /\ UNCHANGED dialog

\* Fault seeded for C2: updateItem without the lookup of the id
UpdateItemLogging_NoLookup(id, updates, ok) ==
    /\ variant = "logging" /\ Ready
    /\ SetItems(UpdatedItems(rendered, id, updates, now))
    /\ SaveItemsLogging(UpdatedItems(rendered, id, updates, now), ok)
    /\ last' = Op("update", id,
                  IF id \in IdsOf(UpdatedItems(rendered, id, updates, now))
                  THEN "value" ELSE "undefined",
                  WriteResult(ok))
    /\ logged' = Output(sink, INFO)
    /\ UNCHANGED <<variant, selectedCategory, dialog, sink, span, pc, isLoading, now>>

UpdateItemLoggingOn(id, updates, ok, lg) ==
    /\ variant = "logging" /\ Ready
    /\ IF FindIndex(rendered, id) = 0 \/ LogThrows(lg, INFO)
       THEN Caught("update", id, "Failed to update", "null")
       ELSE /\ SetItems(UpdatedItems(rendered, id, updates, now))
            /\ SaveItemsLogging(UpdatedItems(rendered, id, updates, now), ok)
            /\ last' = Op("update", id,
                          IF id \in IdsOf(UpdatedItems(rendered, id, updates, now))
                          THEN "value" ELSE "undefined",
                          WriteResult(ok))
    /\ UNCHANGED <<variant, selectedCategory, sink, span, pc, isLoading, now>>

UpdateItemLogging(id, updates, ok) ==
    /\ UpdateItemLoggingOn(id, updates, ok, sink)
    /\ logged' = Output(sink, LastEntryLevel(last'.out))
    /\ UNCHANGED dialog

DeleteItemLoggingOn(id, ok, lg) ==
    /\ variant = "logging" /\ Ready
    /\ IF FindIndex(rendered, id) = 0 \/ LogThrows(lg, INFO)
       THEN Caught("delete", id, "Failed to delete", "false")
       ELSE /\ SetItems(DeletedItems(rendered, id))
            /\ SaveItemsLogging(DeletedItems(rendered, id), ok)
            /\ last' = Op("delete", id, "true", WriteResult(ok))
    /\ UNCHANGED <<variant, selectedCategory, dialog, sink, span, pc, isLoading, now>>

DeleteItemLogging(id, ok) ==
    /\ DeleteItemLoggingOn(id, ok, sink)
    /\ logged' = Output(sink, LastEntryLevel(last'.out))

ToggleCompleteLoggingOn(id, ok, lg) ==
    /\ variant = "logging" /\ Ready
    /\ IF FindIndex(rendered, id) = 0 \/ LogThrows(lg, INFO)
       THEN Caught("toggle", id, "Failed to toggle", "null")
       ELSE /\ SetItems(ToggledItems(rendered, id, now))
            /\ SaveItemsLogging(ToggledItems(rendered, id, now), ok)
            /\ last' = Op("toggle", id, "value", WriteResult(ok))
    /\ UNCHANGED <<variant, selectedCategory, dialog, sink, span, pc, isLoading, now>>

ToggleCompleteLogging(id, ok) ==
    /\ ToggleCompleteLoggingOn(id, ok, sink)
    /\ logged' = Output(sink, LastEntryLevel(last'.out))

\* clearError (both hook variants); the logging variant calls logger.debug first,
\* outside any try
ClearErrorOn(lg) ==
    /\ variant \in HookVariants /\ Ready
    /\ IF variant = "logging" /\ LogThrows(lg, DEBUG)
       THEN /\ last' = Op("clearError", NoId, "throw", "none")
            /\ UNCHANGED error
       ELSE /\ error' = "null"
            /\ last' = Op("clearError", NoId, "none", "none")
    /\ UNCHANGED <<variant, selectedCategory, dialog, sink, span, pc, items, rendered, pending, isLoading, storage, now, failures>>

ClearError ==
    /\ ClearErrorOn(sink)
    /\ logged' = IF variant = "logging" THEN Output(sink, DEBUG) ELSE logged

----------------------------------------------------------------------------
(* useBucketList, tracing variant: traceSync and traceAsync re-throw *)

\* what a traceSync-wrapped operation hands its caller: the value, or the exception
TraceSync(value, threw) == IF threw THEN "throw" ELSE value

\* Fault seeded for C21: the load does not raise the loading flag
LoadItemsStartTracing_NotLoading ==
    /\ variant = "tracing" /\ pc = "mount"
    /\ pc' = "loading"
    /\ isLoading' = FALSE
    /\ last' = Op("load", NoId, "none", "none")
    /\ span' = Started
    /\ UNCHANGED <<variant, selectedCategory, dialog, sink, logged, items, rendered, pending, error, storage, now, failures>>

\* loadItems up to its await: setIsLoading(true), then 10 ms
LoadItemsStartTracing ==
    /\ variant = "tracing" /\ pc = "mount"
    /\ pc' = "loading"
    /\ isLoading' = TRUE
    /\ last' = Op("load", NoId, "none", "none")
    /\ span' = Started
    /\ UNCHANGED <<variant, selectedCategory, dialog, sink, logged, items, rendered, pending, error, storage, now, failures>>

\* loadItems after the await, with its .catch (setError, re-throw) and .finally
LoadItemsFinishTracing ==
    /\ variant = "tracing" /\ pc = "loading"
    /\ isLoading' = FALSE
    /\ span' = Traced(storage.kind = "garbage")
    /\ CASE storage.kind = "null" ->
              /\ pc' = "ready"
              /\ last' = Op("load", NoId, "value", "none")
              /\ UNCHANGED <<items, rendered, pending, error>>
         [] storage.kind = "garbage" ->
              /\ pc' = "ready"
              /\ error' = "Failed to load"
              /\ last' = Op("load", NoId, "reject", "none")
              /\ UNCHANGED <<items, rendered, pending>>
         [] storage.kind = "object" ->
              /\ RenderThrows
              /\ last' = Op("load", NoId, "value", "none")
              /\ UNCHANGED error
         [] storage.kind = "json" ->
              /\ pc' = "ready"
              /\ SetItems(Parse(storage))
              /\ last' = Op("load", NoId, "value", "none")
              /\ UNCHANGED error
    /\ UNCHANGED <<variant, selectedCategory, dialog, sink, logged, storage, now, failures>>

\* saveItems(newItems): setItem either stores the whole blob or throws, and the throw
\* passes through
SaveItemsTracing(newItems, ok) ==
    /\ storage' = IF ok THEN Stringify(newItems) ELSE storage
    /\ failures' = IF ok THEN failures ELSE failures + 1
    /\ UNCHANGED error

\* Fault seeded for C6: addItem saves the new record alone
AddItemTracing_SavesNewOnly(itemData, r, c, u, ok) ==
    /\ variant = "tracing" /\ Ready
    /\ Len(rendered) < MaxItems
    /\ SetItems(Append(rendered, NewItem(itemData, HookId(now, r), c, u)))
    /\ SaveItemsTracing(<<NewItem(itemData, HookId(now, r), c, u)>>, ok)
    /\ now' = u
    /\ last' = Op("add", HookId(now, r), TraceSync("value", ~ok), WriteResult(ok))
    /\ span' = Traced(~ok)
    /\ UNCHANGED <<variant, selectedCategory, dialog, sink, logged, pc, isLoading>>

\* addItem as the page calls it
AddItemTracingCall(itemData, r, c, u, ok) ==
    /\ variant = "tracing" /\ Ready
    /\ Len(rendered) < MaxItems
    /\ SetItems(Append(rendered, NewItem(itemData, HookId(now, r), c, u)))
    /\ SaveItemsTracing(Append(rendered, NewItem(itemData, HookId(now, r), c, u)), ok)
    /\ now' = u
    /\ last' = Op("add", HookId(now, r), TraceSync("value", ~ok), WriteResult(ok))
    /\ span' = Traced(~ok)
    /\ UNCHANGED <<variant, selectedCategory, sink, logged, pc, isLoading>>

AddItemTracing(itemData, r, c, u, ok) ==
    /\ AddItemTracingCall(itemData, r, c, u, ok)
    /\ UNCHANGED dialog

\* updateItem as the page calls it
UpdateItemTracingCall(id, updates, ok) ==
    /\ variant = "tracing" /\ Ready
    /\ IF FindIndex(rendered, id) = 0
       THEN /\ last' = Op("update", id, TraceSync("value", TRUE), "none")
            /\ span' = Traced(TRUE)
            /\ UNCHANGED <<items, rendered, pending, storage, failures, error>>
       ELSE /\ SetItems(UpdatedItems(rendered, id, updates, now))
            /\ SaveItemsTracing(UpdatedItems(rendered, id, updates, now), ok)
            /\ last' = Op("update", id,
                          TraceSync(IF id \in IdsOf(UpdatedItems(rendered, id, updates, now))
                                    THEN "value" ELSE "undefined", ~ok),
                          WriteResult(ok))
            /\ span' = Traced(~ok)
    /\ UNCHANGED <<variant, selectedCategory, sink, logged, pc, isLoading, now>>

UpdateItemTracing(id, updates, ok) ==
    /\ UpdateItemTracingCall(id, updates, ok)
    /\ UNCHANGED dialog

DeleteItemTracing(id, ok) ==
    /\ variant = "tracing" /\ Ready
    /\ IF FindIndex(rendered, id) = 0
       THEN /\ last' = Op("delete", id, TraceSync("true", TRUE), "none")
            /\ span' = Traced(TRUE)
            /\ UNCHANGED <<items, rendered, pending, storage, failures, error>>
       ELSE /\ SetItems(DeletedItems(rendered, id))
            /\ SaveItemsTracing(DeletedItems(rendered, id), ok)
            /\ last' = Op("delete", id, TraceSync("true", ~ok), WriteResult(ok))
            /\ span' = Traced(~ok)
    /\ UNCHANGED <<variant, selectedCategory, dialog, sink, logged, pc, isLoading, now>>

ToggleCompleteTracing(id, ok) ==
    /\ variant = "tracing" /\ Ready
    /\ IF FindIndex(rendered, id) = 0
       THEN /\ last' = Op("toggle", id, "null", "none")
            /\ UNCHANGED <<items, rendered, pending, storage, failures, error, span>>
       ELSE /\ SetItems(ToggledItems(rendered, id, now))
            /\ SaveItemsTracing(ToggledItems(rendered, id, now), ok)
            /\ last' = Op("toggle", id, TraceSync("value", ~ok), WriteResult(ok))
            /\ span' = Traced(~ok)
    /\ UNCHANGED <<variant, selectedCategory, dialog, sink, logged, pc, isLoading, now>>

----------------------------------------------------------------------------
(* BucketListApp, plain variant: the page keeps items and two effects *)

\* setItems(newItems) in an event handler: the re-render and the save effect follow
PlainSetItems(newItems) ==
    /\ items' = newItems
    /\ pending' = "array"
    /\ pc' = "render"
    /\ UNCHANGED rendered

\* the load effect of the mount
PlainLoadEffect ==
    /\ variant = "plain" /\ pc = "mount"
    /\ CASE storage.kind = "null" ->
              /\ pc' = "save"
              /\ last' = Op("load", NoId, "none", "none")
              /\ UNCHANGED <<items, pending>>
         [] storage.kind = "garbage" ->
              /\ pc' = "crashed"
              /\ last' = Op("load", NoId, "throw", "none")
              /\ UNCHANGED <<items, pending>>
         [] storage.kind = "object" ->
              /\ pc' = "save"
              /\ pending' = "nonarray"
              /\ last' = Op("load", NoId, "none", "none")
              /\ UNCHANGED items
         [] storage.kind = "json" ->
              /\ pc' = "save"
              /\ items' = Parse(storage)
              /\ pending' = "array"
              /\ last' = Op("load", NoId, "none", "none")
    /\ UNCHANGED <<variant, selectedCategory, dialog, sink, logged, span, rendered, isLoading, error, storage, now, failures>>

\* the save effect, run after the mount and after every render in which items changed:
\* it writes the items of that render; a throwing setItem escapes the effect
PlainSaveEffect(ok) ==
    /\ variant = "plain" /\ pc = "save"
    /\ IF ok
       THEN /\ storage' = Stringify(rendered)
            /\ pc' = IF pending = "none" THEN "ready" ELSE "render"
            /\ last' = [last EXCEPT !.write = "ok"]
            /\ UNCHANGED failures
       ELSE /\ pc' = "crashed"
            /\ last' = [last EXCEPT !.out = "throw", !.write = "failed"]
            /\ failures' = failures + 1
            /\ UNCHANGED storage
    /\ UNCHANGED <<variant, selectedCategory, dialog, sink, logged, span, items, rendered, pending, isLoading, error, now>>

\* the re-render after setItems
PlainRender ==
    /\ variant = "plain" /\ pc = "render"
    /\ IF pending = "nonarray"
       THEN RenderThrows
       ELSE /\ rendered' = items
            /\ pending' = "none"
            /\ pc' = "save"
            /\ UNCHANGED items
    /\ UNCHANGED <<variant, selectedCategory, dialog, sink, logged, span, isLoading, error, storage, now, last, failures>>

\* handleSubmit's branch for editingItem = null
PlainAdd(formData, c) ==
    /\ variant = "plain" /\ pc = "ready"
    /\ Len(rendered) < MaxItems
    /\ PlainSetItems(Append(rendered, PlainNewItem(formData, PlainId(now), c)))
    /\ now' = c
    /\ last' = Op("add", PlainId(now), "none", "none")
    /\ UNCHANGED <<variant, selectedCategory, sink, logged, span, isLoading, error, storage, failures>>

\* handleSubmit with editingItem = null
PlainSubmitAdd(formData, c) ==
    /\ PlainAdd(formData, c)
    /\ UNCHANGED dialog

\* handleSubmit's branch for an editingItem
PlainEdit(id, formData) ==
    /\ variant = "plain" /\ pc = "ready"
    /\ id \in IdsOf(rendered)
    /\ PlainSetItems(PlainEditedItems(rendered, id, formData))
    /\ last' = Op("update", id, "none", "none")
    /\ UNCHANGED <<variant, selectedCategory, sink, logged, span, isLoading, error, storage, now, failures>>

\* handleSubmit with editingItem set by handleEdit
PlainSubmitEdit(id, formData) ==
    /\ PlainEdit(id, formData)
    /\ UNCHANGED dialog

\* handleDelete of a displayed item
PlainDelete(id) ==
    /\ variant = "plain" /\ pc = "ready"
    /\ id \in IdsOf(rendered)
    /\ PlainSetItems(DeletedItems(rendered, id))
    /\ last' = Op("delete", id, "none", "none")
    /\ UNCHANGED <<variant, selectedCategory, dialog, sink, logged, span, isLoading, error, storage, now, failures>>

\* toggleComplete of a displayed item
PlainToggle(id) ==
    /\ variant = "plain" /\ pc = "ready"
    /\ id \in IdsOf(rendered)
    /\ PlainSetItems(PlainToggledItems(rendered, id))
    /\ last' = Op("toggle", id, "none", "none")
    /\ UNCHANGED <<variant, selectedCategory, dialog, sink, logged, span, isLoading, error, storage, now, failures>>

----------------------------------------------------------------------------
(* Environment *)

\* the clock advances
Tick ==
    /\ now < MaxTime
    /\ now' = now + 1
    /\ UNCHANGED <<variant, selectedCategory, dialog, sink, logged, span, pc, items, rendered, pending, isLoading, error, storage, last, failures>>

\* the page is loaded again: a new component with the initial useState values,
\* localStorage kept
Reload ==
    /\ pc \in {"ready", "crashed"}
    /\ pc' = "mount"
    /\ items' = <<>>
    /\ rendered' = <<>>
    /\ pending' = "none"
    /\ isLoading' = (variant \in HookVariants)
    /\ error' = "null"
    /\ selectedCategory' = "all"
    /\ dialog' = ClosedDialog
    /\ last' = Op("none", NoId, "none", "none")
    /\ UNCHANGED <<variant, storage, now, failures, sink, logged, span>>

----------------------------------------------------------------------------

\* localStorage.setItem stores the blob (TRUE) or throws (FALSE)
WriteOutcomes == IF failures < MaxFailures THEN BOOLEAN ELSE {TRUE}

Next ==
    \/ LoadItemsLogging
    \/ \E d \in Drafts, r \in 1..MaxRand, c \in Later(now), ok \in WriteOutcomes :
         \E u \in Later(now) : c <= u /\ AddItemLogging(d, r, c, u, ok)
    \/ \E id \in HookIds, ok \in WriteOutcomes :
         \E u \in Updates(rendered) : UpdateItemLogging(id, u, ok)
    \/ \E id \in HookIds, ok \in WriteOutcomes : DeleteItemLogging(id, ok)
    \/ \E id \in HookIds, ok \in WriteOutcomes : ToggleCompleteLogging(id, ok)
    \/ ClearError
    \/ LoadItemsStartTracing
    \/ LoadItemsFinishTracing
    \/ \E d \in Drafts, r \in 1..MaxRand, c \in Later(now), ok \in WriteOutcomes :
         \E u \in Later(now) : c <= u /\ AddItemTracing(d, r, c, u, ok)
    \/ \E id \in HookIds, ok \in WriteOutcomes :
         \E u \in Updates(rendered) : UpdateItemTracing(id, u, ok)
    \/ \E id \in HookIds, ok \in WriteOutcomes : DeleteItemTracing(id, ok)
    \/ \E id \in HookIds, ok \in WriteOutcomes : ToggleCompleteTracing(id, ok)
    \/ PlainLoadEffect
    \/ \E ok \in WriteOutcomes : PlainSaveEffect(ok)
    \/ PlainRender
    \/ \E f \in FormData, c \in Later(now) : PlainSubmitAdd(f, c)
    \/ \E id \in IdsOf(rendered), f \in FormData : PlainSubmitEdit(id, f)
    \/ \E id \in IdsOf(rendered) : PlainDelete(id)
    \/ \E id \in IdsOf(rendered) : PlainToggle(id)
    \/ Tick
    \/ Reload

Spec == Init /\ [][Next]_vars

----------------------------------------------------------------------------
(* What a render derives from items: statistics and the filtered list *)

\* item.deadline && ...: undefined and "" are falsy
HasDeadline(item) == item.deadline \notin {"undefined", ""}

\* new Date(item.deadline), on the clock's scale
DateValue(deadline) ==
    CASE deadline = "1970-01-01" -> 0
      [] deadline = "2999-12-31" -> MaxTime + 1

\* Fault seeded for C18: completed counts the records at 100 percent
Stats_CountsFullProgress(s, t) ==
    [total |-> Len(s),
     completed |-> Len(SelectSeq(s, LAMBDA item : item.progress = 100)),
     overdue |-> Len(SelectSeq(s, LAMBDA item :
                     HasDeadline(item) /\ DateValue(item.deadline) < t /\ ~item.completed))]

\* Fault seeded for C19: a deadline equal to the current time counts as overdue
Stats_OverdueAtDeadline(s, t) ==
    [total |-> Len(s),
     completed |-> Len(SelectSeq(s, LAMBDA item : item.completed)),
     overdue |-> Len(SelectSeq(s, LAMBDA item :
                     HasDeadline(item) /\ DateValue(item.deadline) <= t /\ ~item.completed))]

\* stats of useBucketList (the plain page's totalCount and completedCount are its
\* total and completed)
Stats(s, t) ==
    [total |-> Len(s),
     completed |-> Len(SelectSeq(s, LAMBDA item : item.completed)),
     overdue |-> Len(SelectSeq(s, LAMBDA item :
                     HasDeadline(item) /\ DateValue(item.deadline) < t /\ ~item.completed))]

\* isOverdue(deadline) of the hook pages: the deadline alone
IsOverdue(deadline, t) ==
    deadline \notin {"undefined", ""} /\ DateValue(deadline) < t

\* isOverdue(deadline) of the plain page: it also looks at the first item of the list
\* that has this deadline
PlainIsOverdue(s, deadline, t) ==
    /\ deadline \notin {"undefined", ""}
    /\ DateValue(deadline) < t
    /\ LET same == SelectSeq(s, LAMBDA other : other.deadline = deadline)
       IN  same = <<>> \/ ~same[1].completed

\* whether the card of s[i] shows "(Overdue)"
ShownOverdue(v, s, i, t) ==
    IF v = "plain"
    THEN HasDeadline(s[i]) /\ PlainIsOverdue(s, s[i].deadline, t)
    ELSE HasDeadline(s[i]) /\ IsOverdue(s[i].deadline, t) /\ ~s[i].completed

\* Fault seeded for C20: the sentinel "all" is compared as a category
FilteredItems_NoSentinel(s, selected) ==
    SelectSeq(s, LAMBDA item : item.category = selected)

\* filteredItems
FilteredItems(s, selected) ==
    IF selected = "all" THEN s ELSE SelectSeq(s, LAMBDA item : item.category = selected)

\* handleCategoryFilter(category): a click on one of the filter buttons
HandleCategoryFilter(category) ==
    /\ pc = "ready" /\ ~isLoading
    /\ selectedCategory' = category
    /\ UNCHANGED <<variant, pc, items, rendered, pending, isLoading, error, storage, now,
                   failures, dialog, sink, logged, span, last>>

----------------------------------------------------------------------------
(* The store mounted over a snapshot a former session left, and used with the *)
(* values the hook's API accepts                                            *)

MaxStored == 2

StoredCategories == {"travel", "career"}
StoredDeadlines == {"undefined", "", "1970-01-01", "2999-12-31"}
FilterButtons == {"all"} \cup StoredCategories

\* progress values the number type admits and the range input cannot produce
UncheckedProgresses == {33, 150}

UncheckedDrafts ==
    [title : {"t1"}, description : {""}, category : {"travel"},
     deadline : {"undefined"}, progress : UncheckedProgresses, completed : {FALSE}]

\* the k-th record of a stored collection, as the variant v wrote it
StoredItem(v, k, category, deadline, completed) ==
    IF v = "plain"
    THEN [id |-> PlainId(0 - k), title |-> "t1", description |-> "",
          category |-> category, deadline |-> deadline,
          progress |-> IF completed THEN 100 ELSE 60, completed |-> completed,
          createdAt |-> 0]
    ELSE [id |-> HookId(0 - k, 1), title |-> "t1", description |-> "",
          category |-> category, deadline |-> deadline,
          progress |-> IF completed THEN 100 ELSE 60, completed |-> completed,
          createdAt |-> 0, updatedAt |-> 0]

StoredCollections(v) ==
    UNION {{[k \in 1..n |-> StoredItem(v, k, c[k], d[k], b[k])] :
               c \in [1..n -> StoredCategories], d \in [1..n -> StoredDeadlines],
               b \in [1..n -> BOOLEAN]} : n \in 0..MaxStored}

\* one event handler that calls addItem twice: both calls are the callback of the same
\* render, so both compute [...items, newItem] from the same items; the second setItems
\* and the second saveItems replace what the first ones wrote
AddItemTwiceLogging(first, second, r1, r2, ok) ==
    /\ variant = "logging" /\ Ready
    /\ Len(rendered) + 2 <= MaxItems
    /\ SetItems(Append(rendered, NewItem(second, HookId(now, r2), now, now)))
    /\ SaveItemsLogging(Append(rendered, NewItem(second, HookId(now, r2), now, now)), ok)
    /\ last' = Op("add+add", HookId(now, r2), "value", WriteResult(ok))
    /\ logged' = Output(sink, INFO)
    /\ UNCHANGED <<variant, selectedCategory, dialog, sink, span, pc, isLoading, now>>

AddItemTwiceTracing(first, second, r1, r2, ok) ==
    /\ variant = "tracing" /\ Ready
    /\ Len(rendered) + 2 <= MaxItems
    /\ SetItems(Append(rendered, NewItem(second, HookId(now, r2), now, now)))
    /\ SaveItemsTracing(Append(rendered, NewItem(second, HookId(now, r2), now, now)), ok)
    /\ last' = Op("add+add", HookId(now, r2), TraceSync("value", ~ok), WriteResult(ok))
    /\ span' = Traced(~ok)
    /\ UNCHANGED <<variant, selectedCategory, dialog, sink, logged, pc, isLoading, now>>

InitLoaded ==
    /\ variant \in Variants
    /\ pc = "mount"
    /\ items = <<>>
    /\ rendered = <<>>
    /\ pending = "none"
    /\ isLoading = (variant \in HookVariants)
    /\ error = "null"
    /\ storage \in {Stringify(c) : c \in StoredCollections(variant)}
    /\ now = 0
    /\ failures = 0
    /\ selectedCategory = "all"
    /\ dialog = ClosedDialog
    /\ sink = [env |-> "development", up |-> TRUE]
    /\ logged = NoEntry
    /\ span = NoSpan
    /\ last = Op("none", NoId, "none", "none")

NextLoaded ==
    \/ LoadItemsLogging
    \/ LoadItemsStartTracing
    \/ LoadItemsFinishTracing
    \/ PlainLoadEffect
    \/ PlainSaveEffect(TRUE)
    \/ PlainRender
    \/ \E category \in FilterButtons : HandleCategoryFilter(category)
    \/ \E d \in UncheckedDrafts, r \in 1..MaxRand : AddItemLogging(d, r, now, now, TRUE)
    \/ \E d \in UncheckedDrafts, r \in 1..MaxRand : AddItemTracing(d, r, now, now, TRUE)
    \/ \E id \in IdsOf(rendered) : ToggleCompleteLogging(id, TRUE)
    \/ \E id \in IdsOf(rendered) : ToggleCompleteTracing(id, TRUE)
    \/ \E id \in IdsOf(rendered) : PlainToggle(id)
    \/ \E d1, d2 \in UncheckedDrafts : AddItemTwiceLogging(d1, d2, 0, 1, TRUE)
    \/ \E d1, d2 \in UncheckedDrafts : AddItemTwiceTracing(d1, d2, 0, 1, TRUE)
    \/ Tick

SpecLoaded == InitLoaded /\ [][NextLoaded]_vars

----------------------------------------------------------------------------
(* The hook variants run in every environment, over a sink that comes and goes *)

\* the log endpoint and the trace exporter become unreachable, or reachable again
SinkFlip ==
    /\ sink' = [sink EXCEPT !.up = ~@]
    /\ UNCHANGED <<variant, pc, items, rendered, pending, isLoading, error, storage, now,
                   failures, selectedCategory, dialog, logged, span, last>>

\* logger.debug / info / warn / error called by the page itself
LoggerLog(level) ==
    /\ variant = "logging"
    /\ logged' = Output(sink, level)
    /\ UNCHANGED <<variant, pc, items, rendered, pending, isLoading, error, storage, now,
                   failures, selectedCategory, dialog, sink, span, last>>

MaxObserved == 1

TraceFrame ==
    UNCHANGED <<variant, pc, items, rendered, pending, isLoading, error, storage, now,
                failures, selectedCategory, dialog, sink, logged, last>>

\* traceSync / traceAsync, statement by statement: const span = createSpan(name, ...)
TraceCreateSpan ==
    /\ variant = "tracing" /\ pc = "ready"
    /\ span.state # "started"
    /\ span' = Started
    /\ TraceFrame

\* try { const result = operation() ... : the operation returns or throws
TraceOperation(threw) ==
    /\ variant = "tracing" /\ pc = "ready"
    /\ span.state = "started" /\ span.op = "running"
    /\ span' = [span EXCEPT !.op = IF threw THEN "threw" ELSE "returned"]
    /\ TraceFrame

\* Fault seeded for C29: the status is OK whatever the operation did
TraceSetStatus_AlwaysOK ==
    /\ variant = "tracing" /\ pc = "ready"
    /\ span.state = "started" /\ span.op # "running" /\ span.status = "UNSET"
    /\ span' = [span EXCEPT !.status = "OK"]
    /\ TraceFrame

\* span.setStatus({ code: OK }) after the operation, or recordException and
\* span.setStatus({ code: ERROR }) in the catch
TraceSetStatus ==
    /\ variant = "tracing" /\ pc = "ready"
    /\ span.state = "started" /\ span.op # "running" /\ span.status = "UNSET"
    /\ span' = [span EXCEPT !.status = IF span.op = "threw" THEN "ERROR" ELSE "OK"]
    /\ TraceFrame

\* finally { span.end() }, after which return result / throw error reaches the caller
TraceEnd ==
    /\ variant = "tracing" /\ pc = "ready"
    /\ span.state = "started" /\ span.status # "UNSET"
    /\ span' = [span EXCEPT !.state = "ended", !.ends = @ + 1,
                            !.handed = IF span.op = "threw" THEN "error" ELSE "result"]
    /\ TraceFrame

ObservedDrafts == {d \in Drafts : d.progress = 60 /\ ~d.completed}
ObservedUpdates == {[progress |-> 100, completed |-> TRUE]}
ObservedIds == {HookId(0, 1), HookId(1, 1)}

InitObserved ==
    /\ variant \in HookVariants
    /\ pc = "mount"
    /\ items = <<>>
    /\ rendered = <<>>
    /\ pending = "none"
    /\ isLoading = TRUE
    /\ error = "null"
    /\ storage \in {NoSnapshot, Unparseable}
    /\ now = 0
    /\ failures = 0
    /\ selectedCategory = "all"
    /\ dialog = ClosedDialog
    /\ sink \in Sinks
    /\ logged = NoEntry
    /\ span = NoSpan
    /\ last = Op("none", NoId, "none", "none")

NextObserved ==
    \/ SinkFlip
    \/ \E level \in LogLevels : LoggerLog(level)
    \/ LoadItemsLogging
    \/ \E d \in ObservedDrafts, ok \in WriteOutcomes :
         Len(rendered) < MaxObserved /\ AddItemLogging(d, 1, now, now, ok)
    \/ \E id \in ObservedIds, u \in ObservedUpdates, ok \in WriteOutcomes :
         UpdateItemLogging(id, u, ok)
    \/ \E id \in ObservedIds, ok \in WriteOutcomes : DeleteItemLogging(id, ok)
    \/ \E id \in ObservedIds, ok \in WriteOutcomes : ToggleCompleteLogging(id, ok)
    \/ ClearError
    \/ LoadItemsStartTracing
    \/ LoadItemsFinishTracing
    \/ \E d \in ObservedDrafts, ok \in WriteOutcomes :
         Len(rendered) < MaxObserved /\ AddItemTracing(d, 1, now, now, ok)
    \/ \E id \in ObservedIds, u \in ObservedUpdates, ok \in WriteOutcomes :
         UpdateItemTracing(id, u, ok)
    \/ \E id \in ObservedIds, ok \in WriteOutcomes : DeleteItemTracing(id, ok)
    \/ \E id \in ObservedIds, ok \in WriteOutcomes : ToggleCompleteTracing(id, ok)
    \/ TraceCreateSpan
    \/ \E threw \in BOOLEAN : TraceOperation(threw)
    \/ TraceSetStatus
    \/ TraceEnd

SpecObserved == InitObserved /\ [][NextObserved]_vars

\* the wrappers run to completion: the awaited operation settles, and the statements
\* after it (setStatus, finally) follow
TraceProgress ==
    \/ LoadItemsFinishTracing
    \/ \E threw \in BOOLEAN : TraceOperation(threw)
    \/ TraceSetStatus
    \/ TraceEnd

SpecTraced == SpecObserved /\ WF_vars(TraceProgress)

----------------------------------------------------------------------------
(* The pages' goal dialog: Add New Goal, the edit buttons and the form's submit *)

PageFrame ==
    UNCHANGED <<variant, pc, items, rendered, pending, isLoading, error, storage, now,
                failures, selectedCategory, sink, span, last>>

\* handleEdit(item): the form is filled from the item and the dialog opened
HandleEdit(id) ==
    /\ pc = "ready" /\ ~isLoading /\ ~dialog.open
    /\ id \in IdsOf(rendered)
    /\ dialog' = [open |-> TRUE, editingItem |-> id, formData |-> "item", via |-> "edit"]
    /\ logged' = IF variant = "logging" THEN Output(sink, INFO) ELSE logged
    /\ PageFrame

\* the dialog's onOpenChange(true), fired by the Add New Goal trigger:
\*   plain    onClick={resetForm}, then setIsDialogOpen(true)
\*   logging  handleDialogOpen: resetForm(), setIsDialogOpen(true)
\*   tracing  handleDialogOpen: resetForm() only if (!editingItem), setIsDialogOpen(true)
HandleDialogOpen ==
    /\ pc = "ready" /\ ~isLoading /\ ~dialog.open
    /\ dialog' = IF variant = "tracing" /\ dialog.editingItem # NoId
                 THEN [dialog EXCEPT !.open = TRUE, !.via = "button"]
                 ELSE [ClosedDialog EXCEPT !.open = TRUE, !.via = "button"]
    /\ logged' = IF variant = "logging" THEN Output(sink, DEBUG) ELSE logged
    /\ PageFrame

\* the dialog's onOpenChange(false): Escape, the close button or a click outside;
\* no variant resets the form here
HandleDialogClose ==
    /\ pc = "ready" /\ ~isLoading /\ dialog.open
    /\ dialog' = [dialog EXCEPT !.open = FALSE]
    /\ logged' = IF variant = "logging" THEN Output(sink, INFO) ELSE logged
    /\ PageFrame

\* Fault seeded for C27: the form never marks a goal completed
Submitted_NeverCompleted(formData) == Spread(formData, [completed |-> FALSE])

\* resetForm and setIsDialogOpen(false) at the end of handleSubmit; via keeps what the
\* submit was: a create, an edit, or an edit of a goal that stood at 100 percent
\* without being completed
AfterSubmit ==
    [ClosedDialog EXCEPT !.via =
        IF dialog.editingItem = NoId THEN "create"
        ELSE IF \E i \in 1..Len(rendered) :
                   /\ rendered[i].id = dialog.editingItem
                   /\ rendered[i].progress = 100 /\ ~rendered[i].completed
             THEN "edit of an uncompleted goal"
             ELSE "edit"]

\* what handleSubmit of the hook pages hands the hook: { ...formData, completed }
Submitted(formData) == Spread(formData, [completed |-> (formData.progress = 100)])

\* handleSubmit of the logging page: updateItem or addItem, resetForm, close
HandleSubmitLogging(formData, r, c, u, ok) ==
    /\ dialog.open
    /\ IF dialog.editingItem # NoId
       THEN UpdateItemLoggingOn(dialog.editingItem, Submitted(formData), ok, sink)
                /\ c = now /\ u = now
       ELSE AddItemLoggingOn(Submitted(formData), r, c, u, ok, sink)
    /\ logged' = Output(sink, DEBUG)
    /\ dialog' = AfterSubmit

\* handleSubmit of the tracing page: a throw of the hook skips resetForm and the close
HandleSubmitTracing(formData, r, c, u, ok) ==
    /\ dialog.open
    /\ IF dialog.editingItem # NoId
       THEN UpdateItemTracingCall(dialog.editingItem, Submitted(formData), ok)
                /\ c = now /\ u = now
       ELSE AddItemTracingCall(Submitted(formData), r, c, u, ok)
    /\ dialog' = IF last'.out = "throw" THEN dialog ELSE AfterSubmit

\* handleSubmit of the plain page
HandleSubmitPlain(formData, c) ==
    /\ dialog.open
    /\ IF dialog.editingItem # NoId
       THEN PlainEdit(dialog.editingItem, formData) /\ c = now
       ELSE PlainAdd(formData, c)
    /\ dialog' = AfterSubmit

InitDialog ==
    /\ variant \in Variants
    /\ pc = "mount"
    /\ items = <<>>
    /\ rendered = <<>>
    /\ pending = "none"
    /\ isLoading = (variant \in HookVariants)
    /\ error = "null"
    /\ storage = NoSnapshot
    /\ now = 0
    /\ failures = 0
    /\ selectedCategory = "all"
    /\ dialog = ClosedDialog
    /\ sink = [env |-> "development", up |-> TRUE]
    /\ logged = NoEntry
    /\ span = NoSpan
    /\ last = Op("none", NoId, "none", "none")

NextDialog ==
    \/ LoadItemsLogging
    \/ LoadItemsStartTracing
    \/ LoadItemsFinishTracing
    \/ PlainLoadEffect
    \/ PlainSaveEffect(TRUE)
    \/ PlainRender
    \/ \E id \in IdsOf(rendered) : HandleEdit(id)
    \/ HandleDialogOpen
    \/ HandleDialogClose
    \/ \E f \in FormData, ok \in WriteOutcomes : HandleSubmitLogging(f, 1, now, now, ok)
    \/ \E f \in FormData, ok \in WriteOutcomes : HandleSubmitTracing(f, 1, now, now, ok)
    \/ \E f \in FormData : HandleSubmitPlain(f, now)
    \/ \E id \in IdsOf(rendered) : ~dialog.open /\ ToggleCompleteLogging(id, TRUE)
    \/ \E id \in IdsOf(rendered) : ~dialog.open /\ ToggleCompleteTracing(id, TRUE)
    \/ \E id \in IdsOf(rendered) : ~dialog.open /\ PlainToggle(id)
    \/ Tick

SpecDialog == InitDialog /\ [][NextDialog]_vars

----------------------------------------------------------------------------
(* Properties *)

Mutations == {"add", "update", "delete", "toggle"}

\* C1: the collection never holds two records with the same id.
C1_UniqueIds ==
    \A i, j \in 1..Len(items) : i # j => items[i].id # items[j].id

\* a step of updateItem or deleteItem for the id
UpdateOrDeleteStep(id) ==
    \E ok \in BOOLEAN :
        \/ DeleteItemLogging(id, ok)
        \/ DeleteItemTracing(id, ok)
        \/ \E u \in Updates(rendered) :
               UpdateItemLogging(id, u, ok) \/ UpdateItemTracing(id, u, ok)

\* C2: an update or delete whose id is not in the collection leaves the collection
\* as it was and writes nothing to the snapshot.
C2_AbsentIdNoEffect ==
    [][\A id \in HookIds :
          (id \notin IdsOf(items) /\ UpdateOrDeleteStep(id))
              => (items' = items /\ storage' = storage)]_vars

C2_Witness ==
    /\ last.op \in {"update", "delete"}
    /\ last.write = "none"
    /\ last.id \notin IdsOf(items)
    /\ Len(items) > 0
    /\ storage = Stringify(items)

\* C3: in the hook variants no operation throws to its caller, an operation on an
\* absent id returns its error result and sets the error state, and a failed snapshot
\* write sets the error state.
C3_FailuresReported ==
    variant \in HookVariants =>
        /\ last.out # "throw"
        /\ (last.op \in {"update", "delete", "toggle"} /\ last.write = "none")
              => (last.out \in {"null", "false"} /\ error # "null")
        /\ last.write = "failed" => error # "null"

\* a step of toggleComplete for the id, in any variant
ToggleStep(id) ==
    \/ \E ok \in BOOLEAN : ToggleCompleteLogging(id, ok) \/ ToggleCompleteTracing(id, ok)
    \/ PlainToggle(id)

\* what toggleComplete has to do to one record
Toggled(before, after) ==
    /\ DOMAIN after = DOMAIN before
    /\ after.completed = ~before.completed
    /\ after.progress = IF before.completed THEN before.progress ELSE 100
    /\ \A f \in DOMAIN before \ {"completed", "progress", "updatedAt"} :
          after[f] = before[f]

\* C4: toggleComplete(id) flips completed of every record it names, sets progress to
\* 100 when it flips false to true, keeps progress when it flips true to false, and
\* changes no other field except updatedAt.
C4_ToggleFlips ==
    [][\A id \in IdsOf(items) :
          ToggleStep(id) =>
              /\ Len(items') = Len(items)
              /\ \A k \in 1..Len(items) :
                    items[k].id = id => Toggled(items[k], items'[k])]_vars

\* toggleComplete(id) applied to a collection by the running variant
ToggleOnce(s, id) ==
    IF variant = "plain" THEN PlainToggledItems(s, id) ELSE ToggledItems(s, id, now)

\* C5: toggling a record twice, with a render in between, gives completed its
\* original value back.
C5_ToggleTwice ==
    pc = "ready" =>
        \A k \in 1..Len(items) :
            ToggleOnce(ToggleOnce(items, items[k].id), items[k].id)[k].completed
                = items[k].completed

\* the collection a load of the blob installs in a new component
LoadedItems(b) == IF b.kind = "json" THEN Parse(b) ELSE <<>>

\* C6 as stated: after add, loading the persisted snapshot gives the in-memory
\* collection.
C6_AddThenLoad ==
    (pc = "ready" /\ last.op = "add") => LoadedItems(storage) = items

\* C6 amended: after an add whose snapshot write succeeded, loading the persisted
\* snapshot gives the in-memory collection: same records, same order, same fields.
C6_AddThenLoadAfterWrite ==
    (pc = "ready" /\ last.op = "add" /\ last.write = "ok")
        => LoadedItems(storage) = items

C6_Witness ==
    /\ pc = "ready" /\ last.op = "add" /\ last.write = "ok"
    /\ Len(items) = 2
    /\ items[2].deadline = "undefined"
    /\ "deadline" \notin DOMAIN storage.val[2]
    /\ items[1] # items[2]

\* C7: in the hook variants a load of a malformed snapshot leaves the component
\* running with an empty collection and the error state set, and an add made after
\* it puts the record in the collection and, when its write succeeds, in the snapshot.
C7_MalformedLoadRecovers ==
    variant \in HookVariants =>
        /\ (last.op = "load" /\ pc \in {"ready", "crashed"}
                /\ storage.kind \in {"garbage", "object"})
              => (pc = "ready" /\ items = <<>> /\ error # "null")
        /\ (last.op = "add" /\ error = "Failed to load")
              => /\ last.id \in IdsOf(items)
                 /\ last.write = "ok" => storage = Stringify(items)

\* C8: no failure is fatal: the component is never unmounted by an exception thrown in
\* an effect or a render, and no exception escapes the event handlers that call the
\* hook without a try/catch (handleDelete, handleToggleComplete).
C8_NothingFatal ==
    /\ pc # "crashed"
    /\ ~(last.op \in {"delete", "toggle"} /\ last.out = "throw")

\* a step of the hook's addItem whose snapshot write fails
FailedAddStep(r) ==
    \E d \in Drafts, c \in Later(now), u \in Later(now) :
        AddItemLogging(d, r, c, u, FALSE) \/ AddItemTracing(d, r, c, u, FALSE)

\* C9: when the snapshot write fails during add, the collection holds the new record,
\* the error state reports the failure and the snapshot keeps its content.
C9_FailedWriteOnAdd ==
    [][\A r \in 1..MaxRand :
          FailedAddStep(r) =>
              /\ Len(items') = Len(items) + 1
              /\ items'[Len(items')].id = HookId(now, r)
              /\ error' # "null"
              /\ storage' = storage]_vars

\* C10: after a mutation whose snapshot write succeeded, the snapshot is the
\* serialization of the whole in-memory collection, in order.
C10_SnapshotIsWholeCollection ==
    (pc = "ready" /\ last.op \in Mutations /\ last.write = "ok")
        => storage = Stringify(items)

C10_Witness ==
    /\ pc = "ready" /\ last.op = "update" /\ last.write = "ok"
    /\ Len(items) = 2
    /\ items[1] # items[2]

\* a step of updateItem(id, updates) of the hook, or of the plain page's edit of id
\* with the fields the form submits
UpdateWith(id, updates) ==
    \/ \E ok \in BOOLEAN :
           UpdateItemLogging(id, updates, ok) \/ UpdateItemTracing(id, updates, ok)
    \/ /\ variant = "plain"
       /\ \E f \in FormData :
              /\ updates = Spread(f, [completed |-> (f.progress = 100)])
              /\ PlainSubmitEdit(id, f)

\* the fields an update step can be given
UpdateFields(s) ==
    Updates(s) \cup {Spread(f, [completed |-> (f.progress = 100)]) : f \in FormData}

\* what update has to do to the record it names
Merged(before, after, fields, t) ==
    /\ \A f \in DOMAIN fields \ {"updatedAt"} : f \in DOMAIN after /\ after[f] = fields[f]
    /\ \A f \in DOMAIN before \ (DOMAIN fields \cup {"updatedAt"}) :
          f \in DOMAIN after /\ after[f] = before[f]
    /\ "updatedAt" \in DOMAIN after
    /\ after.updatedAt = t

\* C11: update(id, fields) on an existing id merges the fields into that record only,
\* sets its updatedAt to the current time, and leaves every other record and the order
\* of the collection as they were.
C11_UpdateMerges ==
    [][\A id \in IdsOf(items), u \in UpdateFields(items) :
          UpdateWith(id, u) =>
              /\ Len(items') = Len(items)
              /\ Merged(items[FindIndex(items, id)], items'[FindIndex(items, id)], u, now)
              /\ \A j \in 1..Len(items) :
                    j # FindIndex(items, id) => items'[j] = items[j]]_vars

\* a step of update or toggleComplete for the id, in any variant
UpdateOrToggleStep(id) ==
    \/ \E u \in UpdateFields(rendered) : UpdateWith(id, u)
    \/ ToggleStep(id)

\* C12: no update or toggle changes a record's id or createdAt, and in every state
\* every record's createdAt is at most its updatedAt.
C12_IdAndCreatedAtFixed ==
    /\ [](\A k \in 1..Len(items) :
             "updatedAt" \in DOMAIN items[k] => items[k].createdAt <= items[k].updatedAt)
    /\ [][\A id \in IdsOf(items) :
             UpdateOrToggleStep(id) =>
                 /\ Len(items') = Len(items)
                 /\ \A k \in 1..Len(items) :
                       /\ items'[k].id = items[k].id
                       /\ items'[k].createdAt = items[k].createdAt]_vars

\* a step of the hook's addItem(itemData) reading the random suffix r and the clock
\* values c and u
HookAddStep(itemData, r, c, u) ==
    \E ok \in BOOLEAN :
        AddItemLogging(itemData, r, c, u, ok) \/ AddItemTracing(itemData, r, c, u, ok)

\* C14: add sets the new record's completed to (progress = 100), whatever the caller
\* supplies, and gives createdAt and updatedAt the same time, the time of the creation.
C14_AddDerivesCompleted ==
    [][\A d \in Drafts, r \in 1..MaxRand, c \in Later(now), u \in Later(now) :
          HookAddStep(d, r, c, u) =>
              /\ items'[Len(items')].completed = (items'[Len(items')].progress = 100)
              /\ items'[Len(items')].createdAt = c
              /\ items'[Len(items')].updatedAt = c]_vars

\* C15: add appends exactly one record at the end of the collection, leaves the
\* records already there unchanged and in place, and returns the created record.
C15_AddAppendsOne ==
    [][\A d \in Drafts, r \in 1..MaxRand, c \in Later(now), u \in Later(now) :
          HookAddStep(d, r, c, u) =>
              /\ Len(items') = Len(items) + 1
              /\ SubSeq(items', 1, Len(items)) = items
              /\ items'[Len(items')] = NewItem(d, HookId(now, r), c, u)
              /\ last'.out = "value"]_vars

\* a step of the hook's updateItem(id, updates)
HookUpdateStep(id, updates) ==
    \E ok \in BOOLEAN :
        UpdateItemLogging(id, updates, ok) \/ UpdateItemTracing(id, updates, ok)

\* a step of the hook's toggleComplete(id)
HookToggleStep(id) ==
    \E ok \in BOOLEAN : ToggleCompleteLogging(id, ok) \/ ToggleCompleteTracing(id, ok)

\* C16: the store keeps completed independent of progress: an update that carries
\* completed and progress stores both as given, and a toggle from true to false keeps
\* the progress, 100 included.
C16_CompletedIndependent ==
    [][\A id \in IdsOf(items) :
          /\ \A u \in Updates(items) :
                (HookUpdateStep(id, u) /\ "completed" \in DOMAIN u) =>
                    /\ items'[FindIndex(items, id)].completed = u.completed
                    /\ items'[FindIndex(items, id)].progress = u.progress
          /\ (HookToggleStep(id) /\ items[FindIndex(items, id)].completed) =>
                    /\ ~items'[FindIndex(items, id)].completed
                    /\ items'[FindIndex(items, id)].progress
                           = items[FindIndex(items, id)].progress]_vars

C16_Witness ==
    /\ variant \in HookVariants /\ last.op = "toggle" /\ last.out = "value"
    /\ Len(items) = 2
    /\ items[1].id # items[2].id
    /\ \E j, k \in 1..2 :
          /\ items[j].id = last.id /\ ~items[j].completed /\ items[j].progress = 100
          /\ items[k].completed /\ items[k].progress = 60
          /\ items[k].updatedAt > items[k].createdAt

\* a step of delete for the id, in any variant
DeleteStep(id) ==
    \/ \E ok \in BOOLEAN : DeleteItemLogging(id, ok) \/ DeleteItemTracing(id, ok)
    \/ PlainDelete(id)

\* the collection without its k-th record
RemoveAt(s, k) == SubSeq(s, 1, k - 1) \o SubSeq(s, k + 1, Len(s))

\* C17: delete(id) on an existing id removes exactly that record, the others stay
\* unchanged and in order, and the snapshot it writes holds the collection without it.
C17_DeleteRemovesOne ==
    [][\A id \in IdsOf(items) :
          DeleteStep(id) =>
              /\ items' = RemoveAt(items, FindIndex(items, id))
              /\ (variant \in HookVariants /\ last'.write = "ok")
                    => storage' = Stringify(RemoveAt(items, FindIndex(items, id)))]_vars

\* C13: every record's progress is an integer of 0..100 and a multiple of 5.
C13_ProgressInRange ==
    \A k \in 1..Len(items) :
        items[k].progress \in {p \in 0..100 : p % 5 = 0}

\* C18: statistics.total is the number of records, statistics.completed the number of
\* records with completed = true, and completed is at most total.
C18_StatsCounts ==
    pc = "ready" =>
        /\ Stats(rendered, now).total = Cardinality(DOMAIN items)
        /\ Stats(rendered, now).completed
               = Cardinality({k \in DOMAIN items : items[k].completed})
        /\ Stats(rendered, now).completed <= Stats(rendered, now).total

C18_Witness ==
    /\ pc = "ready" /\ last.op = "toggle"
    /\ Len(items) = 2
    /\ Stats(rendered, now).completed = 1
    /\ \E k \in 1..2 : ~items[k].completed /\ items[k].progress = 100

\* the records the specification counts as overdue at time t
OverdueRecords(s, t) ==
    {k \in DOMAIN s :
        /\ s[k].deadline \in {"1970-01-01", "2999-12-31"}
        /\ DateValue(s[k].deadline) < t
        /\ s[k].completed = FALSE}

\* C19: statistics.overdue is the number of records with a deadline strictly before
\* the current time and completed = false; a record without deadline (absent or "")
\* or a completed record is never counted.
C19_StatsOverdue ==
    (variant \in HookVariants /\ pc = "ready") =>
        /\ Stats(rendered, now).overdue = Cardinality(OverdueRecords(items, now))
        /\ Stats(rendered, now).overdue
               <= Cardinality({k \in DOMAIN items :
                      items[k].deadline \notin {"undefined", ""} /\ ~items[k].completed})

C19_Witness ==
    /\ variant \in HookVariants /\ pc = "ready" /\ now = 1
    /\ Len(items) = 2
    /\ items[1].deadline = "1970-01-01" /\ ~items[1].completed
    /\ items[2].deadline = "1970-01-01" /\ items[2].completed
    /\ Stats(rendered, now).overdue = 1

\* r holds exactly the records of s whose category is X, in the order of s
SelectionOf(r, s, X) ==
    /\ Len(r) = Cardinality({k \in DOMAIN s : s[k].category = X})
    /\ \A i \in DOMAIN r : r[i].category = X
    /\ \E f \in [DOMAIN r -> DOMAIN s] :
          /\ \A i \in DOMAIN r : r[i] = s[f[i]]
          /\ \A i, j \in DOMAIN r : i < j => f[i] < f[j]

\* C20: with the filter "all" the filtered list is the whole collection in order, with
\* a category X it is exactly the records of category X in their order, and choosing
\* a filter changes neither the collection nor the snapshot.
C20_FilterByCategory ==
    /\ [](pc = "ready" =>
             IF selectedCategory = "all"
             THEN FilteredItems(rendered, selectedCategory) = items
             ELSE SelectionOf(FilteredItems(rendered, selectedCategory), items,
                              selectedCategory))
    /\ [][\A category \in FilterButtons :
             HandleCategoryFilter(category) => (items' = items /\ storage' = storage)]_vars

C20_Witness ==
    /\ pc = "ready" /\ selectedCategory = "career"
    /\ Len(items) = 2
    /\ items[1].category = "travel" /\ items[2].category = "career"
    /\ FilteredItems(rendered, selectedCategory) = <<items[2]>>

C22_SinkIndependent ==
    [][/\ \A lg \in Sinks :
            /\ LoadItemsLoggingOn(sink) => LoadItemsLoggingOn(lg)
            /\ \A d \in ObservedDrafts, ok \in BOOLEAN :
                 AddItemLoggingOn(d, 1, now, now, ok, sink)
                    => AddItemLoggingOn(d, 1, now, now, ok, lg)
            /\ \A id \in ObservedIds, ok \in BOOLEAN :
                 /\ \A u \in ObservedUpdates :
                      UpdateItemLoggingOn(id, u, ok, sink)
                         => UpdateItemLoggingOn(id, u, ok, lg)
                 /\ DeleteItemLoggingOn(id, ok, sink) => DeleteItemLoggingOn(id, ok, lg)
                 /\ ToggleCompleteLoggingOn(id, ok, sink)
                       => ToggleCompleteLoggingOn(id, ok, lg)
            /\ ClearErrorOn(sink) => ClearErrorOn(lg)
       /\ (variant = "tracing" /\ last' # last /\ last'.op \in Mutations
              /\ last'.write # "none")
            => ((last'.out = "throw") <=> (last'.write = "failed"))]_vars

C22_Witness ==
    /\ variant = "logging" /\ pc = "ready"
    /\ sink.env = "production" /\ ~sink.up
    /\ last.op = "add" /\ last.out = "value" /\ last.write = "ok"
    /\ logged.posted /\ ~logged.delivered
    /\ Len(items) = 1

\* C23: a dialog opened with the Add New Goal button is in create mode (no editingItem,
\* blank fields), also after an edit dialog was closed without a submit, and a submit
\* from a dialog opened that way adds a record and never updates one.
C23_AddButtonOpensCreate ==
    /\ []((dialog.open /\ dialog.via = "button")
             => (dialog.editingItem = NoId /\ dialog.formData = "blank"))
    /\ [][(dialog.open /\ dialog.via = "button" /\ ~dialog'.open /\ last' # last)
             => (last'.op = "add" /\ Len(items') = Len(items) + 1)]_vars

\* C24: an item is displayed as overdue iff it has a deadline strictly before the
\* current time and that same item is not completed, whatever the other items are.
C24_OverdueOwnItem ==
    pc = "ready" =>
        \A i \in 1..Len(rendered) :
            ShownOverdue(variant, rendered, i, now)
               <=> /\ HasDeadline(rendered[i])
                   /\ DateValue(rendered[i].deadline) < now
                   /\ ~rendered[i].completed

\* C25: in the plain variant no step of the mount sequence (load effect, save effect,
\* re-render) writes a snapshot that lacks a record of the snapshot found at the mount.
C25_MountKeepsSnapshot ==
    [][(variant = "plain" /\ last.op \in {"none", "load"} /\ storage.kind = "json")
          => /\ storage'.kind = "json"
             /\ \A i \in 1..Len(Parse(storage)) :
                   \E j \in 1..Len(Parse(storage')) :
                       Parse(storage')[j] = Parse(storage)[i]]_vars

\* a step of one handler that called addItem twice
TwoAddsStep ==
    \E d1, d2 \in UncheckedDrafts :
        AddItemTwiceLogging(d1, d2, 0, 1, TRUE) \/ AddItemTwiceTracing(d1, d2, 0, 1, TRUE)

\* C26: every mutation works on the collection the previous one left: between events
\* the callbacks see the current collection, and after a handler that made two addItem
\* calls both records are in the collection and in the snapshot.
C26_NoLostMutation ==
    /\ []((variant \in HookVariants /\ pc = "ready") => rendered = items)
    /\ [][TwoAddsStep =>
             /\ Len(items') = Len(items) + 2
             /\ {HookId(now, 0), HookId(now, 1)} \subseteq IdsOf(items')
             /\ IdsOf(Parse(storage')) = IdsOf(items')]_vars

\* a step of handleSubmit that stored a record
SubmitStep ==
    /\ dialog.open
    /\ last'.op \in {"add", "update"} /\ last'.out # "null"
    /\ last' # last \/ items' # items

\* C27: after a form submission (create or edit) the submitted record has
\* completed = (progress = 100), also when the record had been toggled to
\* completed = false at progress 100 before the edit.
C27_SubmitDerivesCompleted ==
    [][SubmitStep =>
          IF last'.op = "add"
          THEN items'[Len(items')].completed = (items'[Len(items')].progress = 100)
          ELSE \A i \in 1..Len(items') :
                  items'[i].id = last'.id
                     => items'[i].completed = (items'[i].progress = 100)]_vars

C27_Witness ==
    /\ ~dialog.open /\ dialog.via = "edit of an uncompleted goal"
    /\ last.op = "update"
    /\ \E i \in 1..Len(items) :
          /\ items[i].id = last.id
          /\ items[i].progress = 100 /\ items[i].completed

\* the outcome of an operation that failed
Failed(op) == op.out \in {"caught", "reject", "null", "false", "throw"} \/ op.write = "failed"

\* C28: the error state is set only by a failed operation and cleared only by
\* clearError (a new mount starts with none); a successful mutation leaves a reported
\* error in place, and clearError changes neither the collection nor the snapshot.
C28_ErrorOnlyFromFailure ==
    [][/\ (error' # error /\ error' # "null") => Failed(last')
       /\ (error # "null" /\ error' = "null") => (last'.op = "clearError" \/ pc' = "mount")
       /\ (last'.op \in Mutations /\ ~Failed(last')) => error' = error
       /\ ClearError => (items' = items /\ rendered' = rendered /\ storage' = storage)]_vars

C28_Witness ==
    /\ variant = "logging" /\ pc = "ready"
    /\ error = "Failed to save"
    /\ last.op = "add" /\ last.out = "value" /\ last.write = "ok"
    /\ Len(items) = 2
    /\ storage = Stringify(items)

\* C29: a span that is started is ended, exactly once and only after the wrapped
\* operation has finished; its status is OK iff the operation returned and ERROR iff it
\* threw, and the caller gets the operation's result or its error accordingly.
C29_SpanLifecycle ==
    /\ [](/\ span.ends <= 1
          /\ (span.state = "ended") <=> (span.ends = 1)
          /\ span.state = "ended" =>
                /\ span.op \in {"returned", "threw"}
                /\ (span.status = "OK") <=> (span.op = "returned")
                /\ (span.status = "ERROR") <=> (span.op = "threw")
                /\ (span.handed = "result") <=> (span.op = "returned")
                /\ (span.handed = "error") <=> (span.op = "threw")
          /\ span.state # "ended" => span.handed = "none")
    /\ [][span'.ends > span.ends =>
             (span.ends = 0 /\ span'.ends = 1 /\ span'.op # "running")]_vars
    /\ (span.state = "started") ~> (span.state = "ended")

C29_Witness ==
    /\ variant = "tracing" /\ pc = "ready"
    /\ span.state = "ended" /\ span.ends = 1
    /\ span.op = "threw" /\ span.status = "ERROR" /\ span.handed = "error"
    /\ last.out # "throw"

\* C30: an entry below the logger's threshold (DEBUG in development, INFO otherwise) is
\* neither printed nor forwarded; an entry at or above it is printed, and it is
\* forwarded to /api/logs iff NODE_ENV is production; the call returns to the logger's
\* caller whether the forwarding succeeds or fails.
C30_ThresholdAndForwarding ==
    /\ [](logged.outcome # "none" =>
            /\ logged.outcome = "returned"
            /\ IF logged.level < (IF sink.env = "development" THEN DEBUG ELSE INFO)
               THEN ~logged.printed /\ ~logged.posted
               ELSE logged.printed /\ (logged.posted <=> sink.env = "production")
            /\ logged.delivered => logged.posted)
    /\ [][logged' # logged => (logged'.delivered <=> (logged'.posted /\ sink.up))]_vars

C30_Witness ==
    /\ sink.env = "production" /\ ~sink.up
    /\ logged.level = WARN
    /\ logged.printed /\ logged.posted /\ ~logged.delivered
    /\ logged.outcome = "returned"

====
